---- MODULE Spec2Model ----
(***************************************************************************)
(* A model of omzet's job orchestration (src/src/job_orchestration.rs) and *)
(* of its workflow runner (src/src/workflow_runner/).                      *)
(*                                                                         *)
(* Two specifications share the variables:                                 *)
(*   Spec        the orchestrator's control loop, its inbound channel and  *)
(*               the worker thread it spawns; the worker's run_workflow    *)
(*               call is one step that ends with any outcome a run can     *)
(*               have (RunOutcomes);                                       *)
(*   RunnerSpec  one run_workflow call, step by step, on a file system of  *)
(*               three paths (source, staged input, expected output), for  *)
(*               every workflow of at most MaxTasks tasks.                 *)
(***************************************************************************)
EXTENDS Integers, Sequences, FiniteSets, TLC

VARIABLES
    \* ---- JobOrchestrator (job_orchestration.rs:114-119) and its threads
    job_receiver,         \* requests sent on the channel and not yet received
    senders_alive,        \* whether any Sender of the channel still exists
    queue,                \* VecDeque<RunnableJob>
    current_running_job,  \* Option<(RunningJob, JoinHandle)>: the job, or None
    handle,               \* the JoinHandle's thread: "none", "running", "finished"
    handle_result,        \* what the finished thread returns to join()
    live_workers,         \* worker threads spawned and not yet joined
    orch_pc,              \* position in start()'s loop body
    last_tick,            \* history: what the last handle_runner call did
    last_intake,          \* history: the requests the intake just drained
    \* ---- one Runner::run_workflow call (workflow_runner/runner.rs)
    workflow,             \* the Workflow's tasks, in declaration order
    source_file,          \* the source path given to run_workflow
    fs,                   \* bytes at the source, staged input and output paths
    pc,                   \* position in run_workflow
    probe_results,        \* Vec<(&Task, ProbeResult)> collected so far
    tasks_to_run,         \* indices (into workflow) of the surviving tasks
    next_task,            \* position of run_tasks' loop in tasks_to_run
    task_reports,         \* Vec<TaskReport> collected so far
    result,               \* the call's result, once it has ended
    original,             \* the source file's bytes when the call began
    executed,             \* history: every task executed (run_task called), in order
    warnings,             \* history: tasks for which warn! was called
    probed,               \* history: every run_probe call and what its probe did
    prepare_log,          \* history: the file system calls of prepare, with outcome
    \* ---- the file names of workflow_runner/util.rs, taken alone
    name_pc,              \* which of the two names has been generated
    target_file,          \* what generate_target_file returned, or None
    output_file           \* what generate_output_file_name returned, or None

orch_vars == <<job_receiver, senders_alive, queue, current_running_job, handle,
               handle_result, live_workers, orch_pc, last_tick, last_intake>>

run_vars == <<workflow, source_file, fs, pc, probe_results, tasks_to_run,
              next_task, task_reports, result, original, executed, warnings,
              probed, prepare_log>>

name_vars == <<name_pc, target_file, output_file>>

vars == <<orch_vars, run_vars, name_vars>>

\* Option<T>: None, or Some(x)
None == <<>>

Some(x) == <<x>>

\* a file that does not exist
Absent == -1

(***************************************************************************)
(* Bounds of the model.                                                    *)
(***************************************************************************)
\* requests that may sit in the channel at once
MaxChannel == 2
\* tasks of a workflow
MaxTasks == 2
\* file contents are the numbers 0..MaxByte
MaxByte == 1
\* requests still in the channel when its last sender is dropped
MaxBuffered == 1

\* the longest source file name drawn, in bytes
MaxName == 4

\* the length of a hyphenated Uuid as format! writes it
UuidLen == 36

(***************************************************************************)
(* Data: workflow.rs                                                       *)
(***************************************************************************)
\* Task (workflow.rs:29-33): Custom(CustomTask) with an optional probe
\* script, or Builtin(BuiltinTask::TranscodeToH265).
\* The two Custom tasks of the model have the ids "encode" (no probe) and
\* "check-and-encode" (with a probe).
CustomTask(probe) ==
    [kind |-> "Custom", probe |-> probe,
     id |-> IF probe = None THEN "encode" ELSE "check-and-encode"]

BuiltinTask == [kind |-> "Builtin", probe |-> None]

Task == {CustomTask(None), CustomTask(Some("probe.sh")), BuiltinTask}

\* Workflow.tasks (workflow.rs:26): every ordered list of at most MaxTasks tasks
TaskLists == UNION {[1..n -> Task] : n \in 0..MaxTasks}

\* JobRequest (job_orchestration.rs:21-31); #[derive(PartialEq, Eq)] is the
\* equality of the three fields, which is the equality of these records.
JobRequest(library, file_path, wf) ==
    [library |-> library, file_path |-> file_path, workflow |-> wf]

\* The requests the library monitors send: two files of one library, and
\* one of these files again under a second library with another workflow.
JobRequests ==
    { JobRequest("movies", "/m/a.mkv", <<CustomTask(Some("probe.sh")), CustomTask(None)>>),
      JobRequest("movies", "/m/b.mkv", <<CustomTask(Some("probe.sh")), CustomTask(None)>>),
      JobRequest("archive", "/m/a.mkv", <<BuiltinTask>>) }

\* Result<WorkflowReport, RunnerError> (runner.rs:17-27), or the panic that
\* JoinHandle::join reports as Err
RunOutcomes == {"Ok", "PreparationFailed", "ProbeAborted", "CompletionFailed", "Panicked"}

(***************************************************************************)
(* JobOrchestrator: job_orchestration.rs                                   *)
(***************************************************************************)
\* VecDeque::contains
Contains(q, x) == \E i \in 1..Len(q) : q[i] = x

\* the fields of the orchestrator the methods read and write
Self ==
    [job_receiver |-> job_receiver, senders_alive |-> senders_alive, queue |-> queue,
     current_running_job |-> current_running_job, handle |-> handle,
     handle_result |-> handle_result, live_workers |-> live_workers,
     last_tick |-> last_tick, last_intake |-> last_intake]

\* variant: what was received is gone through from the last sent to the first
RECURSIVE enqueue_all_from_back(_, _)
enqueue_all_from_back(q, incoming) ==
    IF incoming = <<>> THEN q
    ELSE LET last == incoming[Len(incoming)]
             rest == SubSeq(incoming, 1, Len(incoming) - 1)
         IN
         IF Contains(q, last) THEN enqueue_all_from_back(q, rest)
         ELSE enqueue_all_from_back(Append(q, last), rest)

\* the for loop of handle_incoming_job_requests over try_iter()
RECURSIVE enqueue_all(_, _)
enqueue_all(q, incoming) ==
    IF incoming = <<>> THEN q
    ELSE IF Contains(q, Head(incoming)) THEN enqueue_all(q, Tail(incoming))
    ELSE enqueue_all(Append(q, Head(incoming)), Tail(incoming))

\* variant: every received request is appended, the queue is not consulted
handle_incoming_job_requests_no_dedup(self) ==
    [self EXCEPT !.queue = self.queue \o self.job_receiver,
                 !.job_receiver = <<>>,
                 !.last_intake = self.job_receiver]

\* variant: a request equal to the running job is discarded as well
handle_incoming_job_requests_checks_running(self) ==
    LET fresh == SelectSeq(self.job_receiver,
                           LAMBDA r : self.current_running_job # Some(r))
    IN
    [self EXCEPT !.queue = enqueue_all(self.queue, fresh),
                 !.job_receiver = <<>>,
                 !.last_intake = self.job_receiver]

\* variant: a closed and empty channel makes the intake give up the queue
handle_incoming_job_requests_gives_up_when_closed(self) ==
    IF ~self.senders_alive /\ self.job_receiver = <<>>
    THEN [self EXCEPT !.queue = <<>>, !.last_intake = <<>>]
    ELSE [self EXCEPT !.queue = enqueue_all(self.queue, self.job_receiver),
                      !.job_receiver = <<>>,
                      !.last_intake = self.job_receiver]

handle_incoming_job_requests(self) ==
    [self EXCEPT !.queue = enqueue_all(self.queue, self.job_receiver),
                 !.job_receiver = <<>>,
                 !.last_intake = self.job_receiver]

\* variant: the job started is the one enqueued last (pop_back)
start_job_pops_back(self) ==
    IF self.current_running_job # None THEN [self EXCEPT !.last_tick = "rejected"]
    ELSE IF self.queue = <<>> THEN [self EXCEPT !.last_tick = "idle"]
    ELSE [self EXCEPT !.queue = SubSeq(self.queue, 1, Len(self.queue) - 1),
                      !.current_running_job = Some(self.queue[Len(self.queue)]),
                      !.handle = "running",
                      !.handle_result = "none",
                      !.live_workers = self.live_workers + 1,
                      !.last_tick = "started"]

\* variant: with the slot taken, the running job is put back on the queue
start_job_requeues_when_busy(self) ==
    IF self.current_running_job # None
    THEN [self EXCEPT !.queue = Append(self.queue, self.current_running_job[1]),
                      !.last_tick = "rejected"]
    ELSE IF self.queue = <<>> THEN [self EXCEPT !.last_tick = "idle"]
    ELSE [self EXCEPT !.queue = Tail(self.queue),
                      !.current_running_job = Some(Head(self.queue)),
                      !.handle = "running",
                      !.handle_result = "none",
                      !.live_workers = self.live_workers + 1,
                      !.last_tick = "started"]

\* variant: the front of the queue is started but stays queued
start_job_peeks_front(self) ==
    IF self.current_running_job # None THEN [self EXCEPT !.last_tick = "rejected"]
    ELSE IF self.queue = <<>> THEN [self EXCEPT !.last_tick = "idle"]
    ELSE [self EXCEPT !.current_running_job = Some(Head(self.queue)),
                      !.handle = "running",
                      !.handle_result = "none",
                      !.live_workers = self.live_workers + 1,
                      !.last_tick = "started"]

\* thread::Builder::spawn is taken to succeed (its expect would end the
\* orchestrator's thread); last_tick records which branch was taken.
start_job(self) ==
    IF self.current_running_job # None THEN [self EXCEPT !.last_tick = "rejected"]
    ELSE IF self.queue = <<>> THEN [self EXCEPT !.last_tick = "idle"]
    ELSE [self EXCEPT !.queue = Tail(self.queue),
                      !.current_running_job = Some(Head(self.queue)),
                      !.handle = "running",
                      !.handle_result = "none",
                      !.live_workers = self.live_workers + 1,
                      !.last_tick = "started"]

\* variant: a job is popped and spawned whenever the queue holds one,
\* whether or not the running slot is taken
handle_runner_ignores_slot(self) ==
    IF self.queue # <<>>
    THEN [self EXCEPT !.queue = Tail(self.queue),
                      !.current_running_job = Some(Head(self.queue)),
                      !.handle = "running",
                      !.handle_result = "none",
                      !.live_workers = self.live_workers + 1,
                      !.last_tick = "started"]
    ELSE [self EXCEPT !.last_tick = "idle"]

\* variant: a worker that has not finished is dropped from the running slot
\* without being joined
handle_runner_detaches_unfinished(self) ==
    IF self.current_running_job = None THEN start_job(self)
    ELSE IF self.handle # "finished"
    THEN [self EXCEPT !.current_running_job = None, !.last_tick = "busy"]
    ELSE [self EXCEPT !.current_running_job = None,
                      !.handle = "none",
                      !.live_workers = self.live_workers - 1,
                      !.last_tick = "joined"]

\* variant: a worker that died keeps the running slot (its join result is
\* unwrapped, which ends the orchestrator's loop)
handle_runner_halts_on_panic(self) ==
    IF self.current_running_job = None THEN start_job(self)
    ELSE IF self.handle # "finished" THEN [self EXCEPT !.last_tick = "busy"]
    ELSE IF self.handle_result = "Panicked" THEN [self EXCEPT !.last_tick = "halted"]
    ELSE [self EXCEPT !.current_running_job = None,
                      !.handle = "none",
                      !.live_workers = self.live_workers - 1,
                      !.last_tick = "joined"]

\* variant: the worker is joined whether or not it has finished (join
\* blocks the tick until the thread ends)
handle_runner_blocks_on_join(self) ==
    IF self.current_running_job = None THEN start_job(self)
    ELSE [self EXCEPT !.current_running_job = None,
                      !.handle = "none",
                      !.live_workers = self.live_workers - 1,
                      !.last_tick = "joined"]

handle_runner(self) ==
    IF self.current_running_job = None THEN start_job(self)
    ELSE IF self.handle # "finished" THEN [self EXCEPT !.last_tick = "busy"]
    ELSE [self EXCEPT !.current_running_job = None,
                      !.handle = "none",
                      !.live_workers = self.live_workers - 1,
                      !.last_tick = "joined"]

\* the state after an orchestrator method has returned `self`
Becomes(self) ==
    /\ job_receiver' = self.job_receiver
    /\ queue' = self.queue
    /\ current_running_job' = self.current_running_job
    /\ handle' = self.handle
    /\ handle_result' = self.handle_result
    /\ live_workers' = self.live_workers
    /\ last_tick' = self.last_tick
    /\ last_intake' = self.last_intake

\* A library monitor sends a request (app.rs dispatch_job).
Send(r) ==
    /\ senders_alive
    /\ Len(job_receiver) < MaxChannel
    /\ job_receiver' = Append(job_receiver, r)
    /\ UNCHANGED <<senders_alive, queue, current_running_job, handle, handle_result,
                   live_workers, orch_pc, last_tick, last_intake>>
    /\ UNCHANGED <<run_vars, name_vars>>

\* The last Sender is dropped: the channel is closed. What was sent stays
\* receivable, and try_iter() ends where it would on an empty channel.
DropSenders ==
    /\ senders_alive
    /\ senders_alive' = FALSE
    /\ UNCHANGED <<job_receiver, queue, current_running_job, handle, handle_result,
                   live_workers, orch_pc, last_tick, last_intake>>
    /\ UNCHANGED <<run_vars, name_vars>>

\* start(): self.handle_incoming_job_requests()
HandleIncomingJobRequests ==
    /\ orch_pc = "handle_incoming_job_requests"
    /\ Becomes(handle_incoming_job_requests(Self))
    /\ orch_pc' = "handle_runner"
    /\ UNCHANGED senders_alive
    /\ UNCHANGED <<run_vars, name_vars>>

\* start(): self.handle_runner(), then the sleep and the next iteration
HandleRunner ==
    /\ orch_pc = "handle_runner"
    /\ Becomes([handle_runner(Self) EXCEPT !.last_intake = <<>>])
    /\ orch_pc' = "handle_incoming_job_requests"
    /\ UNCHANGED senders_alive
    /\ UNCHANGED <<run_vars, name_vars>>

\* The worker thread's closure returns (or panics): run_workflow has ended.
WorkerFinish(outcome) ==
    /\ handle = "running"
    /\ handle' = "finished"
    /\ handle_result' = outcome
    /\ UNCHANGED <<job_receiver, senders_alive, queue, current_running_job,
                   live_workers, orch_pc, last_tick, last_intake>>
    /\ UNCHANGED <<run_vars, name_vars>>

OrchestratorInit ==
    /\ job_receiver = <<>>
    /\ senders_alive = TRUE
    /\ queue = <<>>
    /\ current_running_job = None
    /\ handle = "none"
    /\ handle_result = "none"
    /\ live_workers = 0
    /\ orch_pc = "handle_incoming_job_requests"
    /\ last_tick = "none"
    /\ last_intake = <<>>

\* no run_workflow call is under way
RunIdle ==
    /\ workflow = <<>>
    /\ fs = <<>>
    /\ pc = "parked"
    /\ probe_results = <<>>
    /\ tasks_to_run = <<>>
    /\ next_task = 0
    /\ task_reports = <<>>
    /\ result = "none"
    /\ original = Absent
    /\ executed = <<>>
    /\ warnings = <<>>
    /\ probed = <<>>
    /\ prepare_log = <<>>

\* no run_workflow call is modelled step by step under Spec
RunParked ==
    /\ source_file = "none"
    /\ RunIdle

\* no file name is being generated
NamesIdle ==
    /\ name_pc = "idle"
    /\ target_file = <<>>
    /\ output_file = <<>>

Init == OrchestratorInit /\ RunParked /\ NamesIdle

Next ==
    \/ \E r \in JobRequests : Send(r)
    \/ DropSenders
    \/ HandleIncomingJobRequests
    \/ HandleRunner
    \/ \E outcome \in RunOutcomes : WorkerFinish(outcome)

Spec == Init /\ [][Next]_vars

\* the queues the orchestrator can hold: no request twice
Queues ==
    {q \in UNION {[1..n -> JobRequests] : n \in 0..MaxChannel} :
        \A i, j \in 1..Len(q) : q[i] = q[j] => i = j}

\* The loop after the channel has closed: every sender is gone, up to
\* MaxBuffered requests sent before are still in the channel, and the
\* orchestrator is in any state of its fields at the top of its loop body.
\* Scheduling: start()'s loop never ends, so each of its two calls is taken
\* again and again, and a worker's run_workflow call comes to an end (its
\* processes are taken to terminate).
Buffered == UNION {[1..n -> JobRequests] : n \in 0..MaxBuffered}

DrainInit ==
    /\ senders_alive = FALSE
    /\ job_receiver \in Buffered
    /\ queue \in Queues
    /\ current_running_job \in {None} \cup {Some(r) : r \in JobRequests}
    /\ handle \in {"none", "running", "finished"}
    /\ (handle = "none") = (current_running_job = None)
    /\ handle_result \in {"none"} \cup RunOutcomes
    /\ (handle_result = "none") = (handle # "finished")
    /\ live_workers = IF current_running_job = None THEN 0 ELSE 1
    /\ orch_pc = "handle_incoming_job_requests"
    /\ last_tick = "none"
    /\ last_intake = <<>>
    /\ RunParked
    /\ NamesIdle

DrainNext ==
    \/ HandleIncomingJobRequests
    \/ HandleRunner
    \/ \E outcome \in RunOutcomes : WorkerFinish(outcome)

DrainSpec ==
    /\ DrainInit
    /\ [][DrainNext]_vars
    /\ WF_vars(HandleIncomingJobRequests)
    /\ WF_vars(HandleRunner)
    /\ WF_vars(\E outcome \in RunOutcomes : WorkerFinish(outcome))

(***************************************************************************)
(* Workflow runner: workflow_runner/                                       *)
(***************************************************************************)
\* file contents
Bytes == 0..MaxByte

\* A file name is the sequence of its bytes. LastDot: the position of the
\* last '.' in it, 0 when there is none.
LastDot(name) ==
    LET dots == {i \in 1..Len(name) : name[i] = "."} IN
    IF dots = {} THEN 0 ELSE CHOOSE i \in dots : \A j \in dots : j <= i

\* Path::file_name of a path given by its final component: None when the
\* path is empty or ends in "." or ".."
file_name(path) ==
    IF path \in {<<>>, <<".">>, <<".", ".">>} THEN None ELSE Some(path)

\* Path::file_stem: the file name up to its last '.', the whole name when
\* it has no '.' or only a leading one
file_stem(path) ==
    IF file_name(path) = None THEN None
    ELSE IF LastDot(path) <= 1 THEN Some(path)
    ELSE Some(SubSeq(path, 1, LastDot(path) - 1))

\* Path::extension: what follows the last '.' of the file name, None when
\* it has no '.' or only a leading one
extension(path) ==
    IF file_name(path) = None \/ LastDot(path) <= 1 THEN None
    ELSE Some(SubSeq(path, LastDot(path) + 1, Len(path)))

\* U+FFFD REPLACEMENT CHARACTER in UTF-8
Replacement == <<"0xEF", "0xBF", "0xBD">>

\* OsStr::to_string_lossy: every byte that is not valid UTF-8 (here 0xFF)
\* becomes U+FFFD, the others are kept
RECURSIVE to_string_lossy(_)
to_string_lossy(os_str) ==
    IF os_str = <<>> THEN <<>>
    ELSE (IF Head(os_str) = "0xFF" THEN Replacement ELSE <<Head(os_str)>>)
             \o to_string_lossy(Tail(os_str))

\* what Uuid::new_v4 displays as: 32 hexadecimal digits in five groups
\* joined by hyphens, the version digit 4 leading the third group
Uuids ==
    { [i \in 1..UuidLen |-> IF i \in {9, 14, 19, 24} THEN "-"
                             ELSE IF i = 15 THEN "4" ELSE d] : d \in {"0", "f"} }

\* The source paths a run is given: the file names of "/m/a.mkv" and of
\* "/m/README", which has no extension.
SourcePaths == { <<"a", ".", "m", "k", "v">>, <<"R", "E", "A", "D", "M", "E">> }

\* the exit codes a probe or task process ends with
ExitCodes == {0, 1, 2}

\* What happens to a script handed to run_script: the spawn fails, the
\* wait fails, the child is killed by a signal, or it exits with a code.
ScriptOutcomes ==
    { [how |-> h, code |-> 0] : h \in {"spawn_failed", "wait_failed", "signalled"} }
        \cup { [how |-> "exited", code |-> c] : c \in ExitCodes }

\* The outcomes drawn for a task command: run_tasks never reads a task's
\* exit code (it goes into the TaskReport), so two codes stand for all.
CommandOutcomes == {o \in ScriptOutcomes : o.code \in {0, 1}}

\* What find_video_stream_info yields for the staged file: an error, no
\* video stream, a stream that is not StreamInfo::Video, or a codec name.
CodecOutcomes == {"ffmpeg_error", "no_video_stream", "unexpected_stream", "hevc", "h264"}

\* variant: the output file is given the staging name itself
generate_output_file_name_same(target_file_name) == Some(target_file_name)

\* util.rs generate_target_file: Some(name), or None when an expect panics.
\* The name is the stem, a hyphen, the fresh uuid, a dot and the extension.
generate_target_file(source_file_path, uuid) ==
    IF file_stem(source_file_path) = None \/ extension(source_file_path) = None
    THEN None
    ELSE Some(to_string_lossy(file_stem(source_file_path)[1]) \o <<"-">> \o uuid
                  \o <<".">> \o to_string_lossy(extension(source_file_path)[1]))

\* util.rs generate_output_file_name: Some(name), the stem of the staging
\* name, ".out." and its extension, or None when an expect panics
generate_output_file_name(target_file_name) ==
    IF file_stem(target_file_name) = None \/ extension(target_file_name) = None
    THEN None
    ELSE Some(to_string_lossy(file_stem(target_file_name)[1])
                  \o <<".", "o", "u", "t", ".">>
                  \o to_string_lossy(extension(target_file_name)[1]))

\* Context (runner.rs:43-52) as prepare builds it: the staged input path
\* and the expected output path, both in the scratchpad. The two names
\* differ, whatever the uuid; the file system of the model has one path
\* for each, "input" and "output".
Context == [input_file |-> "input", output_file |-> "output"]

\* the environment CustomTask::run_probe hands to run_script
probe_env(task, context) ==
    [OMZET_INPUT |-> context.input_file, OMZET_TASK |-> task.id]

\* variant: the task's environment is built with the two paths exchanged
task_env_swapped(context) ==
    [OMZET_INPUT |-> context.output_file, OMZET_OUTPUT |-> context.input_file]

\* the environment CustomTask::run_task hands to run_script
task_env(context) ==
    [OMZET_INPUT |-> context.input_file, OMZET_OUTPUT |-> context.output_file]

\* fs::rename(from, to) when it succeeds
fs_rename(fsys, from, to) == [fsys EXCEPT ![to] = fsys[from], ![from] = Absent]

\* variant: the file is moved into the scratchpad, not copied
fs_copy_moves(fsys, from, to) == [fsys EXCEPT ![to] = fsys[from], ![from] = Absent]

\* variant: the copy is an empty file (byte 0) whatever the source holds
fs_copy_empties(fsys, from, to) == [fsys EXCEPT ![to] = 0]

\* fs::copy(from, to) when it succeeds
fs_copy(fsys, from, to) == [fsys EXCEPT ![to] = fsys[from]]

\* variant: a failed copy is ignored and the run goes on
prepare_ignores_copy_failure(fsys, source_file_path, create_ok, copy_ok) ==
    IF ~create_ok
    THEN [tag |-> "Err", error |-> "UnableToCreateScratchpad", fs |-> fsys,
          ops |-> <<"create_dir_all: Err">>]
    ELSE LET input_file_name ==
                 generate_target_file(source_file_path, CHOOSE uuid \in Uuids : TRUE) IN
         IF input_file_name = None
         THEN [tag |-> "Panic", error |-> "failed to take file extension", fs |-> fsys,
               ops |-> <<"create_dir_all: Ok">>]
         ELSE IF ~copy_ok \/ fsys["source"] = Absent
         THEN [tag |-> "Ok", error |-> "", fs |-> fsys,
               ops |-> <<"create_dir_all: Ok", "copy: Err">>]
         ELSE [tag |-> "Ok", error |-> "",
               fs |-> fs_copy(fsys, "source", Context.input_file),
               ops |-> <<"create_dir_all: Ok", "copy: Ok">>]

\* Runner::prepare. create_ok, copy_ok: whether create_dir_all and copy
\* succeed (copy never does on a missing source). ops: the file system
\* calls made, in order, each with its outcome.
prepare(fsys, source_file_path, create_ok, copy_ok) ==
    IF ~create_ok
    THEN [tag |-> "Err", error |-> "UnableToCreateScratchpad", fs |-> fsys,
          ops |-> <<"create_dir_all: Err">>]
    ELSE LET input_file_name ==
                 generate_target_file(source_file_path, CHOOSE uuid \in Uuids : TRUE) IN
         IF input_file_name = None
         THEN [tag |-> "Panic", error |-> "failed to take file extension", fs |-> fsys,
               ops |-> <<"create_dir_all: Ok">>]
         ELSE IF ~copy_ok \/ fsys["source"] = Absent
         THEN [tag |-> "Err", error |-> "UnableToCopySourceFile", fs |-> fsys,
               ops |-> <<"create_dir_all: Ok", "copy: Err">>]
         ELSE [tag |-> "Ok", error |-> "",
               fs |-> fs_copy(fsys, "source", Context.input_file),
               ops |-> <<"create_dir_all: Ok", "copy: Ok">>]

\* custom_task.rs run_script: Ok((exit_code, ..)), or a panic of one of its
\* expects; no path of it returns Err.
run_script(outcome) ==
    IF outcome.how = "exited"
    THEN [tag |-> "Ok", code |-> outcome.code]
    ELSE [tag |-> "Panic", code |-> 0]

\* variant: the probe's exit code is read the other way round
CustomTask_run_probe_inverted(task, outcome) ==
    IF task.probe = None THEN "Run"
    ELSE LET r == run_script(outcome) IN
         CASE r.tag = "Ok" -> (IF r.code = 0 THEN "Skip" ELSE "Run")
           [] r.tag = "Err" -> "Abort"
           [] OTHER -> "Panic"

\* impl ProbeRunner for CustomTask
CustomTask_run_probe(task, outcome) ==
    IF task.probe = None THEN "Run"
    ELSE LET r == run_script(outcome) IN
         CASE r.tag = "Ok" -> (IF r.code = 0 THEN "Run" ELSE "Skip")
           [] r.tag = "Err" -> "Abort"
           [] OTHER -> "Panic"

\* builtin_task.rs get_codec_name: Some(codec), or None for an Err
get_codec_name(codec) ==
    IF codec \in {"ffmpeg_error", "no_video_stream", "unexpected_stream"}
    THEN None
    ELSE Some(codec)

\* variant: a file whose codec cannot be told is transcoded
BuiltinTask_run_probe_runs_on_error(codec) ==
    LET name == get_codec_name(codec) IN
    IF name = None THEN "Run"
    ELSE IF name[1] = "hevc" THEN "Skip" ELSE "Run"

\* impl ProbeRunner for BuiltinTask
BuiltinTask_run_probe(codec) ==
    LET name == get_codec_name(codec) IN
    IF name = None THEN "Abort"
    ELSE IF name[1] = "hevc" THEN "Skip" ELSE "Run"

\* impl ProbeRunner for Task
run_probe(task, outcome, codec) ==
    IF task.kind = "Custom"
    THEN CustomTask_run_probe(task, outcome)
    ELSE BuiltinTask_run_probe(codec)

\* What a run_probe call did, for the history: the task, the staged input
\* file it was given, and what its probe did: nothing ("no_probe"), the
\* probe script's outcome and exit code, or the codec introspection's result;
\* env is the environment of the probe process, if there was one.
probe_record(task, idx, outcome, codec, input, context) ==
    [task |-> idx, input |-> input,
     env |-> IF task.kind = "Custom" /\ task.probe # None
             THEN Some(probe_env(task, context)) ELSE None,
     did |-> IF task.kind = "Builtin" THEN codec
             ELSE IF task.probe = None THEN "no_probe" ELSE outcome.how,
     code |-> IF task.kind = "Custom" /\ task.probe # None THEN outcome.code ELSE 0]

\* probe_tasks, after the probes: any Abort among the results
has_aborted_probe_result(results) == \E i \in 1..Len(results) : results[i] = "Abort"

\* variant: the surviving tasks are collected in reverse order
RECURSIVE filter_run_reversed(_, _)
filter_run_reversed(results, i) ==
    IF i > Len(results) THEN <<>>
    ELSE IF results[i] = "Run" THEN filter_run_reversed(results, i + 1) \o <<i>>
    ELSE filter_run_reversed(results, i + 1)

\* probe_tasks: the indices of the tasks whose probe result is Run
RECURSIVE filter_run(_, _)
filter_run(results, i) ==
    IF i > Len(results) THEN <<>>
    ELSE IF results[i] = "Run" THEN <<i>> \o filter_run(results, i + 1)
    ELSE filter_run(results, i + 1)

\* impl TaskRunner for CustomTask: the TaskReport, or a panic
CustomTask_run_task(outcome) ==
    LET r == run_script(outcome) IN
    IF r.tag = "Ok"
    THEN [tag |-> "Ok", exit_code |-> Some(r.code)]
    ELSE [tag |-> "Panic", exit_code |-> None]

\* impl TaskRunner for BuiltinTask: a stub that reports exit code 1
BuiltinTask_run_task == [tag |-> "Ok", exit_code |-> Some(1)]

\* impl TaskRunner for Task
run_task(task, outcome) ==
    IF task.kind = "Custom" THEN CustomTask_run_task(outcome) ELSE BuiltinTask_run_task

\* Whether the task's process wrote a file at $OMZET_OUTPUT
process_wrote(task, outcome, wrote) ==
    task.kind = "Custom" /\ outcome.how # "spawn_failed" /\ wrote # None

\* The file at the output path once the task's process is gone: a Custom
\* command that was spawned may have written `wrote` there (None if it
\* wrote nothing); the Builtin stub and a failed spawn write nothing.
after_process(fsys, task, outcome, wrote) ==
    IF process_wrote(task, outcome, wrote)
    THEN [fsys EXCEPT !["output"] = wrote[1]]
    ELSE fsys

\* variant: the rename is given its paths in the wrong order
move_output_swapped(fsys, rename_ok) ==
    IF rename_ok THEN fs_rename(fsys, "input", "output") ELSE fsys

\* run_tasks: fs::rename(&context.output_file, &context.input_file), which
\* changes nothing when it fails
move_output(fsys, rename_ok) ==
    IF rename_ok THEN fs_rename(fsys, "output", "input") ELSE fsys

\* variant: the output file is taken to exist without looking
output_exists_always(fsys, exists_ok) == TRUE

\* run_tasks: fs::exists(&context.output_file).unwrap_or(false)
output_exists(fsys, exists_ok) == exists_ok /\ fsys["output"] # Absent

\* the state run_tasks' loop reads and writes
Loop ==
    [fs |-> fs, task_reports |-> task_reports, warnings |-> warnings,
     executed |-> executed, tag |-> "Ok", context |-> Context]

\* One iteration of run_tasks' for loop, on task number idx of the workflow.
\* exists_ok: fs::exists does not fail (unwrap_or(false) otherwise);
\* rename_ok: fs::rename of the output over the input succeeds.
\* TaskReport carries no task id; `task` in a report and the entries of
\* `executed` are the model's record of which task it was and what it saw:
\* its input, whether it wrote an output file, the file at the output path
\* once it was gone, whether that file was moved over the input, how its
\* process ended ("builtin" with code 1 for the Builtin stub, which starts
\* no process), the environment of that process, and whether fs::exists
\* failed on a file that was there.
run_tasks_iteration(loop, tasks, idx, outcome, wrote, exists_ok, rename_ok) ==
    LET task == tasks[idx]
        task_report == run_task(task, outcome)
        fs1 == after_process(loop.fs, task, outcome, wrote)
        entry == [task |-> idx, input |-> loop.fs["input"],
                  output |-> fs1["output"], moved |-> FALSE,
                  wrote |-> process_wrote(task, outcome, wrote),
                  exists_failed |-> FALSE,
                  env |-> IF task.kind = "Custom"
                          THEN Some(task_env(loop.context)) ELSE None,
                  how |-> IF task.kind = "Custom" THEN outcome.how ELSE "builtin",
                  code |-> IF task.kind = "Custom" THEN outcome.code ELSE 1]
    IN
    IF task_report.tag = "Panic"
    THEN [loop EXCEPT !.fs = fs1, !.executed = Append(loop.executed, entry),
                      !.tag = "Panic"]
    ELSE IF ~output_exists(fs1, exists_ok)
    THEN [loop EXCEPT
             !.fs = fs1,
             !.executed = Append(loop.executed,
                                 [entry EXCEPT !.exists_failed = fs1["output"] # Absent])]
    ELSE LET move_result == rename_ok IN
         [loop EXCEPT
             !.fs = move_output(fs1, rename_ok),
             !.warnings = IF move_result THEN loop.warnings
                          ELSE Append(loop.warnings, idx),
             !.task_reports = Append(loop.task_reports,
                                     [task |-> idx, exit_code |-> task_report.exit_code]),
             !.executed = Append(loop.executed, [entry EXCEPT !.moved = move_result])]

\* variant: the staged file is removed and the source is left as it was
complete_run_drops_staged(fsys, rename_ok) ==
    IF rename_ok
    THEN [tag |-> "Ok", fs |-> [fsys EXCEPT !["input"] = Absent]]
    ELSE [tag |-> "Err", fs |-> fsys]

\* variant: a failed move has already overwritten the source
complete_run_not_atomic(fsys, rename_ok) ==
    IF rename_ok
    THEN [tag |-> "Ok", fs |-> fs_rename(fsys, "input", "source")]
    ELSE [tag |-> "Err", fs |-> [fsys EXCEPT !["source"] = fsys["input"]]]

\* variant: a failed move removes the staged file
complete_run_loses_staged(fsys, rename_ok) ==
    IF rename_ok
    THEN [tag |-> "Ok", fs |-> fs_rename(fsys, "input", "source")]
    ELSE [tag |-> "Err", fs |-> [fsys EXCEPT !["input"] = Absent]]

\* Runner::complete_run: Ok with the staged input renamed over the source,
\* or Err(UnableToMoveFile) with nothing changed
complete_run(fsys, rename_ok) ==
    IF rename_ok
    THEN [tag |-> "Ok", fs |-> fs_rename(fsys, "input", "source")]
    ELSE [tag |-> "Err", fs |-> fsys]

(***************************************************************************)
(* run_workflow, step by step                                              *)
(***************************************************************************)
\* run_workflow: self.prepare(..)?
Prepare(create_ok, copy_ok) ==
    /\ pc = "prepare"
    /\ LET r == prepare(fs, source_file, create_ok, copy_ok) IN
       /\ fs' = r.fs
       /\ prepare_log' = r.ops
       /\ pc' = CASE r.tag = "Ok" -> "probe_tasks"
                  [] r.tag = "Err" -> "returned"
                  [] OTHER -> "panicked"
       /\ result' = CASE r.tag = "Ok" -> result
                      [] r.tag = "Err" -> "PreparationFailed"
                      [] OTHER -> "Panicked"
    /\ UNCHANGED <<workflow, source_file, probe_results, tasks_to_run, next_task,
                   task_reports, original, executed, warnings, probed>>
    /\ UNCHANGED <<orch_vars, name_vars>>

\* probe_tasks: task.run_probe(probing_context) of the next task of the map
ProbeTask(outcome, codec) ==
    /\ pc = "probe_tasks"
    /\ Len(probe_results) < Len(workflow)
    /\ LET idx == Len(probe_results) + 1
           r == run_probe(workflow[idx], outcome, codec)
       IN
       /\ probed' = Append(probed, probe_record(workflow[idx], idx, outcome, codec,
                                                fs["input"], Context))
       /\ IF r = "Panic"
          THEN /\ pc' = "panicked"
               /\ result' = "Panicked"
               /\ UNCHANGED probe_results
          ELSE /\ probe_results' = Append(probe_results, r)
               /\ UNCHANGED <<pc, result>>
    /\ UNCHANGED <<workflow, source_file, fs, tasks_to_run, next_task, task_reports,
                   original, executed, warnings, prepare_log>>
    /\ UNCHANGED <<orch_vars, name_vars>>

\* probe_tasks after the map, and run_workflow up to the call of run_tasks
ProbeTasksReturn ==
    /\ pc = "probe_tasks"
    /\ Len(probe_results) = Len(workflow)
    /\ IF has_aborted_probe_result(probe_results)
       THEN /\ pc' = "returned"
            /\ result' = "ProbeAborted"
            /\ UNCHANGED <<tasks_to_run, next_task>>
       ELSE LET to_run == filter_run(probe_results, 1) IN
            /\ tasks_to_run' = to_run
            /\ IF to_run = <<>>
               THEN /\ pc' = "returned"
                    /\ result' = "Ok"
                    /\ UNCHANGED next_task
               ELSE /\ pc' = "run_tasks"
                    /\ next_task' = 1
                    /\ UNCHANGED result
    /\ UNCHANGED <<workflow, source_file, fs, probe_results, task_reports, original,
                   executed, warnings, probed, prepare_log>>
    /\ UNCHANGED <<orch_vars, name_vars>>

\* run_tasks: one iteration of the loop over tasks_to_run
RunTask(outcome, wrote, exists_ok, rename_ok) ==
    /\ pc = "run_tasks"
    /\ next_task <= Len(tasks_to_run)
    /\ LET loop == run_tasks_iteration(Loop, workflow, tasks_to_run[next_task],
                                       outcome, wrote, exists_ok, rename_ok) IN
       /\ fs' = loop.fs
       /\ task_reports' = loop.task_reports
       /\ warnings' = loop.warnings
       /\ executed' = loop.executed
       /\ IF loop.tag = "Panic"
          THEN /\ pc' = "panicked"
               /\ result' = "Panicked"
               /\ UNCHANGED next_task
          ELSE /\ next_task' = next_task + 1
               /\ UNCHANGED <<pc, result>>
    /\ UNCHANGED <<workflow, source_file, probe_results, tasks_to_run, original,
                   probed, prepare_log>>
    /\ UNCHANGED <<orch_vars, name_vars>>

\* run_workflow: self.complete_run(&context)? and the Ok it returns
CompleteRun(rename_ok) ==
    /\ pc = "run_tasks"
    /\ next_task > Len(tasks_to_run)
    /\ LET r == complete_run(fs, rename_ok) IN
       /\ fs' = r.fs
       /\ result' = IF r.tag = "Ok" THEN "Ok" ELSE "CompletionFailed"
    /\ pc' = "returned"
    /\ UNCHANGED <<workflow, source_file, probe_results, tasks_to_run, next_task,
                   task_reports, original, executed, warnings, probed, prepare_log>>
    /\ UNCHANGED <<orch_vars, name_vars>>

\* A run_workflow call begins: any workflow, any source path, any source
\* file (or none), nothing staged yet.
RunnerInit ==
    /\ OrchestratorInit
    /\ workflow \in TaskLists
    /\ source_file \in SourcePaths
    /\ fs \in [{"source", "input", "output"} -> Bytes \cup {Absent}]
    /\ fs["input"] = Absent
    /\ fs["output"] = Absent
    /\ original = fs["source"]
    /\ pc = "prepare"
    /\ probe_results = <<>>
    /\ tasks_to_run = <<>>
    /\ next_task = 0
    /\ task_reports = <<>>
    /\ result = "none"
    /\ executed = <<>>
    /\ warnings = <<>>
    /\ probed = <<>>
    /\ prepare_log = <<>>
    /\ NamesIdle

RunnerNext ==
    \/ \E create_ok, copy_ok \in BOOLEAN : Prepare(create_ok, copy_ok)
    \/ \E outcome \in ScriptOutcomes, codec \in CodecOutcomes : ProbeTask(outcome, codec)
    \/ ProbeTasksReturn
    \/ \E outcome \in CommandOutcomes, wrote \in {None} \cup {Some(b) : b \in Bytes},
          exists_ok, rename_ok \in BOOLEAN :
            RunTask(outcome, wrote, exists_ok, rename_ok)
    \/ \E rename_ok \in BOOLEAN : CompleteRun(rename_ok)

RunnerSpec == RunnerInit /\ [][RunnerNext]_vars

\* The loop with its scheduling and producers that keep sending: from any
\* state of the orchestrator's fields at the top of the loop body, requests
\* are sent for as long as a sender exists, each one once the intake has
\* received the one before. Fairness as in DrainSpec: the loop never ends and every
\* run_workflow call comes to an end.
SendWhileTicking(r) ==
    /\ job_receiver = <<>>
    /\ Send(r)

LiveInit ==
    /\ senders_alive = TRUE
    /\ job_receiver \in {<<>>} \cup {<<r>> : r \in JobRequests}
    /\ queue \in Queues
    /\ current_running_job \in {None} \cup {Some(r) : r \in JobRequests}
    /\ handle \in {"none", "running", "finished"}
    /\ (handle = "none") = (current_running_job = None)
    /\ handle_result \in {"none"} \cup RunOutcomes
    /\ (handle_result = "none") = (handle # "finished")
    /\ live_workers = IF current_running_job = None THEN 0 ELSE 1
    /\ orch_pc = "handle_incoming_job_requests"
    /\ last_tick = "none"
    /\ last_intake = <<>>
    /\ RunParked
    /\ NamesIdle

LiveNext ==
    \/ \E r \in JobRequests : SendWhileTicking(r)
    \/ DropSenders
    \/ HandleIncomingJobRequests
    \/ HandleRunner
    \/ \E outcome \in RunOutcomes : WorkerFinish(outcome)

LiveSpec ==
    /\ LiveInit
    /\ [][LiveNext]_vars
    /\ WF_vars(HandleIncomingJobRequests)
    /\ WF_vars(HandleRunner)
    /\ WF_vars(\E outcome \in RunOutcomes : WorkerFinish(outcome))

(***************************************************************************)
(* start_job on its own: one call from any state of the orchestrator's     *)
(* fields, the running slot taken or not (start() itself reaches it only   *)
(* through handle_runner, with the slot empty)                             *)
(***************************************************************************)
StartJob ==
    /\ orch_pc = "start_job"
    /\ Becomes(start_job(Self))
    /\ orch_pc' = "start_job returned"
    /\ UNCHANGED senders_alive
    /\ UNCHANGED <<run_vars, name_vars>>

StartJobInit ==
    /\ job_receiver = <<>>
    /\ senders_alive \in BOOLEAN
    /\ queue \in Queues
    /\ current_running_job \in {None} \cup {Some(r) : r \in JobRequests}
    /\ handle \in {"none", "running", "finished"}
    /\ (handle = "none") = (current_running_job = None)
    /\ handle_result \in {"none"} \cup RunOutcomes
    /\ (handle_result = "none") = (handle # "finished")
    /\ live_workers = IF current_running_job = None THEN 0 ELSE 1
    /\ orch_pc = "start_job"
    /\ last_tick = "none"
    /\ last_intake = <<>>
    /\ RunParked
    /\ NamesIdle

StartJobNext == StartJob

StartJobSpec == StartJobInit /\ [][StartJobNext]_vars

(***************************************************************************)
(* Properties                                                              *)
(***************************************************************************)
\* the RunnerError kinds
RunnerErrors == {"PreparationFailed", "ProbeAborted", "CompletionFailed"}

\* run_workflow has returned Ok
ReturnedOk == pc = "returned" /\ result = "Ok"

\* complete_run has renamed the staged input file away
Committed == ReturnedOk /\ fs["input"] = Absent

\* the indices of the tasks of a sequence of reports or of history entries
TasksOf(entries) == [i \in 1..Len(entries) |-> entries[i].task]

\* The bytes of the last output file that was moved over the staged input
\* file, or `staged` when none was.
LastMoved(history, staged) ==
    LET moved == {i \in 1..Len(history) : history[i].moved} IN
    IF moved = {} THEN staged
    ELSE history[CHOOSE i \in moved : \A j \in moved : j <= i].output

\* C1: in every reachable state of the orchestrator at most one worker
\* thread exists, whatever is queued and whatever arrives between ticks.
C1_AtMostOneWorker == live_workers <= 1

\* C1 witness: a tick found the slot taken while the queue held a job and
\* requests were arriving; one worker exists.
C1_BusyTickWithQueue ==
    /\ last_tick = "busy"
    /\ orch_pc = "handle_incoming_job_requests"
    /\ queue # <<>>
    /\ job_receiver # <<>>
    /\ live_workers = 1

\* C2: the queue never holds two equal JobRequests.
C2_NoDuplicateInQueue ==
    \A i, j \in 1..Len(queue) : queue[i] = queue[j] => i = j

\* C2 witness: the intake has just drained two equal requests, and the
\* queue holds exactly one entry, equal to them.
C2_TwoEqualSubmitted ==
    /\ orch_pc = "handle_runner"
    /\ Len(last_intake) = 2
    /\ last_intake[1] = last_intake[2]
    /\ queue = <<last_intake[1]>>

\* C3: until run_workflow has returned, the source file holds the bytes it
\* held when the run began (prepare, probes, tasks and a panic leave it),
\* and only a successful complete_run leaves it with other bytes.
C3_StagingIsolation ==
    /\ pc # "returned" => fs["source"] = original
    /\ fs["source"] # original => Committed

\* C3 witness: a task's output has replaced the staged file, with other
\* bytes than the source's, and complete_run has not run yet.
C3_TransformedBeforeCommit ==
    /\ pc = "run_tasks"
    /\ executed # <<>>
    /\ executed[1].moved
    /\ fs["input"] # original
    /\ fs["source"] = original

\* C4 as stated: after a successful complete_run the source holds the
\* output of the last executed task (the copied bytes if none was executed).
C4_SourceIsLastTaskOutput ==
    Committed =>
        fs["source"] = IF executed = <<>> THEN original
                       ELSE executed[Len(executed)].output

\* C4 amended: after a successful complete_run the source holds the bytes
\* of the last output file that was moved over the staged input file, or
\* the bytes copied at prepare if no output file was moved.
C4_SourceIsLastMovedOutput ==
    Committed => fs["source"] = LastMoved(executed, original)

\* C4 witness: two tasks ran, the first one's output was moved, the last
\* one left no output file, and the run was committed.
C4_CommittedAfterTaskWithoutOutput ==
    /\ Committed
    /\ Len(executed) = 2
    /\ executed[1].moved
    /\ executed[1].output # original
    /\ executed[2].output = Absent

\* C5: a run that ends with a RunnerError leaves the source file's bytes
\* as they were before the run.
C5_FailureLeavesSource ==
    (pc = "returned" /\ result \in RunnerErrors) => fs["source"] = original

\* C5 witness: the final rename failed after a task had transformed the
\* staged file.
C5_CompletionFailedAfterTransform ==
    /\ pc = "returned"
    /\ result = "CompletionFailed"
    /\ fs["input"] # Absent
    /\ fs["input"] # original

\* C6: a run whose list of tasks to execute is empty returns Ok with no
\* TaskReport and has renamed the staged copy over the source path.
C6_EmptyRunCommits ==
    (/\ pc = "returned"
     /\ result # "PreparationFailed"
     /\ Len(probe_results) = Len(workflow)
     /\ filter_run(probe_results, 1) = <<>>
     /\ ~has_aborted_probe_result(probe_results))
        => (ReturnedOk /\ task_reports = <<>> /\ fs["input"] = Absent
            /\ fs["source"] = original)

\* C7: once any probe has resolved to Abort, the run ends with
\* ProbeAborted and without having executed any task.
C7_AbortFailsRun ==
    (has_aborted_probe_result(probe_results) /\ pc \in {"returned", "panicked"})
        => (result = "ProbeAborted" /\ executed = <<>>)

\* C8: a successful report holds exactly one TaskReport per executed task,
\* in the order of execution.
C8_OneReportPerExecutedTask ==
    ReturnedOk => TasksOf(task_reports) = TasksOf(executed)

\* C9: a task whose probe resolved to Skip is not executed and has no
\* TaskReport; after probes <<Skip, Run>> a successful report holds exactly
\* the second task's TaskReport, and that task's input was the staged copy.
C9_SkipSemantics ==
    /\ \A i \in 1..Len(probe_results) :
          probe_results[i] = "Skip" =>
              /\ \A k \in 1..Len(executed) : executed[k].task # i
              /\ \A k \in 1..Len(task_reports) : task_reports[k].task # i
    /\ (ReturnedOk /\ probe_results = <<"Skip", "Run">>) =>
          /\ TasksOf(task_reports) = <<2>>
          /\ TasksOf(executed) = <<2>>
          /\ executed[1].input = original

\* C10 as stated: whenever an executed task leaves a file at the output
\* path, the next task's input holds that file's bytes.
C10_OutputChained ==
    \A k \in 1..(Len(executed) - 1) :
        executed[k].output # Absent => executed[k + 1].input = executed[k].output

\* C10 amended: when the file an executed task leaves at the output path is
\* found and renamed over the staged input, the next task's input holds its
\* bytes and the output path is free; when the check or the rename fails,
\* the next task's input is the one this task had.
C10_OutputChainedWhenMoved ==
    \A k \in 1..(Len(executed) - 1) :
        IF executed[k].moved
        THEN executed[k + 1].input = executed[k].output
        ELSE executed[k + 1].input = executed[k].input

\* C10 witness: a second task ran on the output of the first, which differs
\* from the bytes staged at prepare.
C10_SecondTaskSawFirstOutput ==
    /\ Len(executed) = 2
    /\ executed[1].moved
    /\ executed[1].output # executed[1].input
    /\ executed[2].input = executed[1].output

\* the staged input file that follows entry k of `executed`: the input of
\* the next executed task, or the staged file now if k is the last
InputAfter(k) ==
    IF k < Len(executed) THEN executed[k + 1].input ELSE fs["input"]

\* C11: a task that exits 0 and writes no output file does not fail the run,
\* leaves the staged input file unchanged, and the next task receives that
\* same input file.
C11_NoOutputKeepsInput ==
    \A k \in 1..Len(executed) :
        (executed[k].how = "exited" /\ executed[k].code = 0 /\ ~executed[k].wrote)
            => ((k < Len(executed) \/ pc = "run_tasks")
                   => InputAfter(k) = executed[k].input)

\* C12: whenever an executed task writes no output file, a warning is
\* recorded for that task.
C12_WarningWhenNoOutput ==
    \A k \in 1..Len(executed) :
        (executed[k].how = "exited" /\ ~executed[k].wrote)
            => \E w \in 1..Len(warnings) : warnings[w] = executed[k].task

\* C13: jobs are started in FIFO order: the queue changes only by requests
\* appended at its back, which starts no job, or by its front being popped
\* and started, so of two queued requests the earlier one is started first.
C13_FifoOrder ==
    [][queue' # queue =>
          \/ /\ Len(queue') > Len(queue)
             /\ SubSeq(queue', 1, Len(queue)) = queue
             /\ current_running_job' = current_running_job
          \/ /\ queue # <<>>
             /\ queue' = Tail(queue)
             /\ current_running_job = None
             /\ current_running_job' = Some(Head(queue))]_vars

\* a job has just been started while later requests stay queued
C13_StartedAheadOfQueued ==
    /\ last_tick = "started"
    /\ orch_pc = "handle_incoming_job_requests"
    /\ Len(queue) >= 2

\* C14: across jobs there is a total order: a worker is spawned only when
\* no worker is alive and no handle is held, and a worker leaves only by the
\* orchestrator joining its finished thread, so the worker of the next job
\* is never spawned before the previous one has finished and been joined.
C14_JoinBeforeNextSpawn ==
    [][/\ live_workers' > live_workers
           => /\ live_workers = 0
              /\ handle = "none"
              /\ current_running_job = None
              /\ live_workers' = 1
       /\ (current_running_job # None /\ current_running_job' # current_running_job)
           => /\ handle = "finished"
              /\ handle' = "none"
              /\ current_running_job' = None
              /\ live_workers' = live_workers - 1]_vars

\* the previous job's worker has been joined while the next job waits
C14_JoinedWithNextQueued ==
    /\ last_tick = "joined"
    /\ orch_pc = "handle_incoming_job_requests"
    /\ live_workers = 0
    /\ queue # <<>>

\* one iteration of start()'s loop ends: handle_runner has returned
Tick == orch_pc = "handle_runner" /\ orch_pc' = "handle_incoming_job_requests"

\* C15: one job's failure never halts the daemon: whatever the outcome of a
\* finished worker (Ok, any RunnerError, or a worker that died), the tick
\* that finds it empties the running slot and returns to Idle, and a tick
\* that finds the slot empty and a job queued starts that job.
C15_FailureNeverHalts ==
    [][Tick =>
          /\ (current_running_job # None /\ handle = "finished")
                => /\ handle_result \in RunOutcomes
                   /\ current_running_job' = None
                   /\ handle' = "none"
                   /\ live_workers' = 0
                   /\ queue' = queue
          /\ (current_running_job = None /\ queue # <<>>)
                => /\ current_running_job' = Some(Head(queue))
                   /\ handle' = "running"
                   /\ queue' = Tail(queue)]_vars

\* a worker that died has been joined, the slot is empty, a job is queued
C15_DeadWorkerJoinedNextQueued ==
    /\ last_tick = "joined"
    /\ handle_result = "Panicked"
    /\ current_running_job = None
    /\ queue # <<>>

\* C16: every failure of a run_workflow call is returned as a typed
\* RunnerError (PreparationFailed, ProbeAborted or CompletionFailed); no
\* failure inside the runner ends the call with a panic.
C16_FailuresAreTyped ==
    /\ pc # "panicked"
    /\ pc = "returned" => result \in RunnerErrors \cup {"Ok"}

\* the probes of `probed` whose process failed to spawn or to complete
FailedProbes ==
    {k \in 1..Len(probed) : probed[k].did \in {"spawn_failed", "wait_failed", "signalled"}}

\* C17: when the probe process of a Custom task fails to spawn or fails to
\* complete, the probe result is Abort, and the run fails with ProbeAborted.
C17_FailedProbeAborts ==
    \A k \in FailedProbes :
        /\ Len(probe_results) >= k
        /\ probe_results[k] = "Abort"
        /\ pc # "panicked"
        /\ pc = "returned" => result = "ProbeAborted"

C19_NonzeroExitContinues ==
    \A k \in 1..Len(executed) :
        (executed[k].how = "exited" /\ executed[k].code # 0)
            => /\ pc \in {"run_tasks", "returned"}
               /\ pc = "returned"
                     => /\ TasksOf(executed) = tasks_to_run
                        /\ result \in {"Ok", "CompletionFailed"}

\* prepare's create_dir_all or copy has failed
PrepareFailed ==
    \E i \in 1..Len(prepare_log) : prepare_log[i] \in {"create_dir_all: Err", "copy: Err"}

\* C20: if creating the scratchpad directory or copying the source file
\* fails, run_workflow returns PreparationFailed and performs no later
\* step: no probe is evaluated, no task is executed, and complete_run is
\* not called (the source is as it was).
C20_PrepareFailureEndsRun ==
    PrepareFailed
        => /\ pc = "returned"
           /\ result = "PreparationFailed"
           /\ probed = <<>>
           /\ probe_results = <<>>
           /\ executed = <<>>
           /\ task_reports = <<>>
           /\ fs["source"] = original

\* the copy of an existing source file failed in a run that had tasks
C20_CopyFailedWithTasks ==
    /\ prepare_log = <<"create_dir_all: Ok", "copy: Err">>
    /\ result = "PreparationFailed"
    /\ workflow # <<>>
    /\ fs["source"] # Absent

\* run_workflow's call of complete_run returns
CompleteRunStep == pc = "run_tasks" /\ pc' = "returned"

\* C21: if the final rename over the source path fails, run_workflow
\* returns CompletionFailed, the source file is exactly as before the run,
\* and the transformed staged file still exists in the scratchpad; the
\* call returns Ok only when the staged file has been moved over the source.
C21_CompletionFailureStrandsStaged ==
    [][CompleteRunStep =>
          \/ /\ result' = "Ok"
             /\ fs'["input"] = Absent
             /\ fs'["source"] = fs["input"]
          \/ /\ result' = "CompletionFailed"
             /\ fs' = fs
             /\ fs'["source"] = original
             /\ fs'["input"] # Absent
             /\ fs'["input"] = LastMoved(executed, original)]_vars

\* the final rename failed and the last task's output is still staged,
\* with other bytes than the source's
C21_RenameFailedStagedKept ==
    /\ pc = "returned"
    /\ result = "CompletionFailed"
    /\ executed # <<>>
    /\ executed[Len(executed)].moved
    /\ fs["input"] = executed[Len(executed)].output
    /\ fs["input"] # fs["source"]

\* start()'s call of handle_incoming_job_requests returns
IntakeStep == orch_pc = "handle_incoming_job_requests" /\ orch_pc' = "handle_runner"

\* C22: intake checks only the queue: an incoming request is discarded if
\* and only if an equal request is in the queue at that moment, so every
\* received request is queued afterwards, each newly queued one was
\* received and was not queued, none is queued twice, and the running job
\* plays no part (a request equal to it and to no queued one is appended).
C22_IntakeChecksOnlyQueue ==
    [][IntakeStep =>
          /\ Len(queue') >= Len(queue)
          /\ SubSeq(queue', 1, Len(queue)) = queue
          /\ \A i \in 1..Len(job_receiver) : Contains(queue', job_receiver[i])
          /\ \A k \in (Len(queue) + 1)..Len(queue') :
                /\ Contains(job_receiver, queue'[k])
                /\ ~Contains(queue, queue'[k])
                /\ \A j \in (Len(queue) + 1)..Len(queue') : queue'[j] = queue'[k] => j = k
          /\ current_running_job' = current_running_job]_vars

\* the intake has just received a request equal to the running job, and
\* it is queued behind it
C22_RunningJobQueuedAgain ==
    /\ orch_pc = "handle_runner"
    /\ current_running_job # None
    /\ handle = "running"
    /\ Contains(last_intake, current_running_job[1])
    /\ queue = <<current_running_job[1]>>

\* C23: start_job called with a non-empty running slot is rejected: the
\* queue and the running slot are unchanged (nothing is popped, nothing is
\* spawned, nothing is queued twice).
C23_StartJobRejectedWhenBusy ==
    [][(orch_pc = "start_job" /\ current_running_job # None)
          => /\ queue' = queue
             /\ current_running_job' = current_running_job
             /\ handle' = handle
             /\ live_workers' = live_workers
             /\ job_receiver' = job_receiver]_vars

\* start_job has returned from a call with the slot taken and jobs queued
C23_RejectedWithQueue ==
    /\ orch_pc = "start_job returned"
    /\ last_tick = "rejected"
    /\ current_running_job # None
    /\ Len(queue) >= 2

C25_BusyPollingNonBlocking ==
    /\ [](orch_pc = "handle_runner" => ENABLED HandleRunner)
    /\ [](orch_pc = "handle_incoming_job_requests" => ENABLED HandleIncomingJobRequests)
    /\ [][/\ (Tick /\ current_running_job # None /\ handle = "running")
               => /\ current_running_job' = current_running_job
                  /\ handle' = "running"
                  /\ live_workers' = live_workers
                  /\ queue' = queue
          /\ (current_running_job # None /\ current_running_job' = None)
               => handle = "finished"
          /\ (IntakeStep /\ current_running_job # None)
               => /\ job_receiver' = <<>>
                  /\ \A i \in 1..Len(job_receiver) : Contains(queue', job_receiver[i])
                  /\ current_running_job' = current_running_job
                  /\ handle' = handle]_vars

\* after a tick that found the worker still running, the next intake has
\* drained a request that arrived meanwhile and queued it
C25_ArrivalQueuedWhileBusy ==
    /\ orch_pc = "handle_runner"
    /\ last_tick = "busy"
    /\ handle = "running"
    /\ last_intake # <<>>
    /\ job_receiver = <<>>
    /\ queue # <<>>
    /\ queue[Len(queue)] = last_intake[Len(last_intake)]

\* C26: when a task's probe resolves to Abort the run fails immediately:
\* the probes of the tasks that follow it in workflow order are not
\* evaluated.
C26_NoProbeAfterAbort ==
    \A k \in 1..Len(probe_results) :
        probe_results[k] = "Abort" => Len(probed) <= k

\* C27: after run_workflow has returned Ok no artifact of the run is left
\* in the scratchpad: neither the staged input file nor the expected
\* output file exists.
C27_NoArtifactsAfterSuccess ==
    ReturnedOk => (fs["input"] = Absent /\ fs["output"] = Absent)

\* C28: a Custom task's probe result is Run when the task has no probe or
\* the probe process exits with code 0, and Skip when the probe process
\* exits with any nonzero code.
C28_CustomProbeResult ==
    \A k \in 1..Len(probe_results) :
        workflow[k].kind = "Custom"
            => /\ probed[k].task = k
               /\ workflow[k].probe = None => probe_results[k] = "Run"
               /\ (workflow[k].probe # None /\ probed[k].did = "exited")
                     => probe_results[k] = IF probed[k].code = 0 THEN "Run" ELSE "Skip"

\* the first task's probe exited with code 2 and gave Skip, the second
\* task's probe (none, or one that exited with 0) gave Run
C28_SkipThenRun ==
    /\ Len(probe_results) = 2
    /\ workflow[1].kind = "Custom" /\ workflow[1].probe # None
    /\ probed[1].did = "exited" /\ probed[1].code = 2
    /\ probe_results[1] = "Skip"
    /\ workflow[2].kind = "Custom"
    /\ probe_results[2] = "Run"

\* C29: the Builtin transcode-to-H265 probe yields Skip when the staged
\* file's video codec is hevc, Run for any other codec, and Abort when
\* codec introspection fails or finds no video stream.
C29_BuiltinProbeResult ==
    \A k \in 1..Len(probe_results) :
        workflow[k].kind = "Builtin"
            => /\ probed[k].task = k
               /\ probe_results[k] =
                     CASE probed[k].did = "hevc" -> "Skip"
                       [] probed[k].did \in {"ffmpeg_error", "no_video_stream",
                                             "unexpected_stream"} -> "Abort"
                       [] OTHER -> "Run"

\* an hevc file was skipped and a file without video stream aborted
C29_SkipAndAbort ==
    /\ Len(probe_results) = 2
    /\ workflow[1].kind = "Builtin" /\ workflow[2].kind = "Builtin"
    /\ probed[1].did = "hevc" /\ probe_results[1] = "Skip"
    /\ probed[2].did = "no_video_stream" /\ probe_results[2] = "Abort"

\* C30: every probe process is given exactly OMZET_INPUT (the staged input
\* path) and OMZET_TASK (the task's id), and no OMZET_OUTPUT; every task
\* process is given exactly OMZET_INPUT (the staged input path) and
\* OMZET_OUTPUT (the expected output path), and no OMZET_TASK; the two
\* paths are distinct and the same for every task of a run.
C30_ProcessEnvironment ==
    /\ \A k \in 1..Len(probed) :
          LET task == workflow[probed[k].task] IN
          /\ (probed[k].env # None) = (task.kind = "Custom" /\ task.probe # None)
          /\ probed[k].env # None
                => LET env == probed[k].env[1] IN
                   /\ DOMAIN env = {"OMZET_INPUT", "OMZET_TASK"}
                   /\ env.OMZET_INPUT = "input"
                   /\ env.OMZET_TASK = task.id
    /\ \A k \in 1..Len(executed) :
          LET task == workflow[executed[k].task] IN
          /\ (executed[k].env # None) = (task.kind = "Custom")
          /\ executed[k].env # None
                => LET env == executed[k].env[1] IN
                   /\ DOMAIN env = {"OMZET_INPUT", "OMZET_OUTPUT"}
                   /\ env.OMZET_INPUT = "input"
                   /\ env.OMZET_OUTPUT = "output"
                   /\ env.OMZET_INPUT # env.OMZET_OUTPUT
                   /\ \A j \in 1..Len(executed) :
                         executed[j].env # None => executed[j].env = executed[k].env

\* two probe processes have run, and then two task commands, the second
\* after the first one's output was moved
C30_TwoProbesTwoTasks ==
    /\ Len(probed) = 2
    /\ probed[1].env # None /\ probed[2].env # None
    /\ Len(executed) = 2
    /\ executed[1].env # None /\ executed[2].env # None
    /\ executed[1].moved

\* prepare has returned Ok
Prepared == prepare_log = <<"create_dir_all: Ok", "copy: Ok">>

\* C31: after prepare succeeds the staged input file holds a byte-for-byte
\* copy of the source file, the source file still exists unchanged, and
\* the first executed task receives that copy as its input.
C31_StagedIsCopyOfSource ==
    Prepared
        => /\ original # Absent
           /\ executed = <<>> /\ pc \in {"probe_tasks", "run_tasks"}
                 => /\ fs["input"] = original
                    /\ fs["source"] = original
           /\ executed # <<>> => executed[1].input = original

\* the first task has run on the copy of a source that holds byte 1
C31_FirstTaskSawCopy ==
    /\ Prepared
    /\ original = 1
    /\ Len(executed) = 1
    /\ executed[1].input = 1
    /\ fs["source"] = 1

\* C32: under fair ticking, and with every workflow run coming to an end,
\* every request that is in the queue is eventually placed in the running
\* slot, and the worker of every request in the running slot is eventually
\* joined (the slot is emptied by a tick that found it finished).
C32_QueuedIsEventuallyRunAndJoined ==
    /\ \A r \in JobRequests :
          Contains(queue, r) ~> (current_running_job = Some(r) /\ handle = "running")
    /\ (current_running_job # None)
          ~> (current_running_job = None /\ handle = "none" /\ last_tick = "joined")

\* a worker has been joined while requests sent meanwhile wait in the queue
\* and in the channel
C32_JoinedWhileOthersWait ==
    /\ last_tick = "joined"
    /\ current_running_job = None
    /\ Len(queue) >= 2
    /\ job_receiver # <<>>
    /\ senders_alive

\* C33: every entry of the queue is started exactly once: an entry leaves
\* the queue only as its front, moved into the empty running slot in the
\* step that spawns its worker; a worker is spawned only in such a step;
\* and no other step removes or reorders an entry, so no accepted request
\* is lost, started twice, or queued and running as the same entry.
C33_StartedExactlyOnce ==
    [][/\ queue' # queue
            => \/ /\ Len(queue') > Len(queue)
                  /\ SubSeq(queue', 1, Len(queue)) = queue
                  /\ live_workers' = live_workers
                  /\ current_running_job' = current_running_job
               \/ /\ queue # <<>>
                  /\ queue' = Tail(queue)
                  /\ current_running_job = None
                  /\ current_running_job' = Some(Head(queue))
                  /\ handle' = "running"
                  /\ live_workers' = live_workers + 1
       /\ (live_workers' > live_workers \/ (current_running_job = None
                                            /\ current_running_job' # None))
            => /\ queue # <<>>
               /\ queue' = Tail(queue)
               /\ current_running_job' = Some(Head(queue))]_vars

\* the front has just been moved into the running slot; the entries behind
\* it are still queued and it is not among them
C33_FrontMovedToSlot ==
    /\ last_tick = "started"
    /\ orch_pc = "handle_incoming_job_requests"
    /\ handle = "running"
    /\ queue # <<>>
    /\ ~Contains(queue, current_running_job[1])

\* C34: at the moment any task of a run starts executing, no file exists at
\* the expected output path, so a file found there after the task exits was
\* written by that task and never by an earlier task of the same run.
C34_OutputPathFreeAtTaskStart ==
    /\ (pc = "run_tasks" /\ next_task <= Len(tasks_to_run)) => fs["output"] = Absent
    /\ \A k \in 1..Len(executed) : executed[k].output # Absent => executed[k].wrote

\* the executed tasks that left a file at the output path
LeftOutput == {k \in 1..Len(executed) : executed[k].output # Absent}

\* the executed tasks for which fs::exists reported the file
FoundOutput == {k \in LeftOutput : ~executed[k].exists_failed}

C36_ProbesSeeTheCopy ==
    /\ \A k \in 1..Len(probed) : probed[k].input = original
    /\ Len(probed) < Len(workflow) => executed = <<>>
    /\ Len(probe_results) < Len(workflow) => executed = <<>>

\* the first task has transformed the staged file; the second task's probe
\* process had run on the copy
C36_ProbedBeforeTransform ==
    /\ Len(probed) = 2
    /\ probed[2].did = "exited"
    /\ probed[2].input = original
    /\ executed # <<>>
    /\ executed[1].task = 1
    /\ executed[1].moved
    /\ fs["input"] # original

\* where request x stands in queue q
Position(q, x) == CHOOSE i \in 1..Len(q) : q[i] = x

\* the i-th request in the channel is accepted by the intake that drains it:
\* no equal request is queued, and none was sent before it in this batch
Accepted(i) ==
    /\ ~Contains(queue, job_receiver[i])
    /\ \A h \in 1..(i - 1) : job_receiver[h] # job_receiver[i]

ProbedAndExecutedOnce ==
    /\ \A j, k \in 1..Len(probed) : j < k => probed[j].task < probed[k].task
    /\ \A j, k \in 1..Len(executed) : j < k => executed[j].task < executed[k].task
    /\ Len(probed) <= Len(workflow)
    /\ Len(executed) <= Len(workflow)

\* C38: a run_workflow call whose probe and task processes all terminate
\* ends with a result: each task of the workflow is probed at most once
\* and executed at most once, with no retry or loop back, and the call
\* that has ended has returned Ok or a RunnerError.
C38_TerminatesWithResult ==
    /\ ProbedAndExecutedOnce
    /\ pc \in {"returned", "panicked"} => result \in RunnerErrors \cup {"Ok"}

(***************************************************************************)
(* The file names of workflow_runner/util.rs, on every source file name    *)
(***************************************************************************)
\* the bytes of a source file name: a letter, the dot, and a byte that is
\* not valid UTF-8
NameBytes == {"a", ".", "0xFF"}

\* The file names a directory scan can yield, up to MaxName bytes: never
\* empty, never "." or ".."
SourceNames ==
    UNION {[1..n -> NameBytes] : n \in 1..MaxName} \ {<<".">>, <<".", ".">>}

\* generate_target_file(source path) with a fresh uuid
GenerateTargetFile(uuid) ==
    /\ name_pc = "source"
    /\ LET name == generate_target_file(source_file, uuid) IN
       IF name = None
       THEN name_pc' = "panicked" /\ UNCHANGED target_file
       ELSE name_pc' = "target" /\ target_file' = name
    /\ UNCHANGED output_file
    /\ UNCHANGED <<orch_vars, run_vars>>

\* generate_output_file_name(staging name)
GenerateOutputFileName ==
    /\ name_pc = "target"
    /\ LET name == generate_output_file_name(target_file[1]) IN
       IF name = None
       THEN name_pc' = "panicked" /\ UNCHANGED output_file
       ELSE name_pc' = "output" /\ output_file' = name
    /\ UNCHANGED target_file
    /\ UNCHANGED <<orch_vars, run_vars>>

NameInit ==
    /\ OrchestratorInit
    /\ RunIdle
    /\ source_file \in SourceNames
    /\ name_pc = "source"
    /\ target_file = None
    /\ output_file = None

NameNext ==
    \/ \E uuid \in Uuids : GenerateTargetFile(uuid)
    \/ GenerateOutputFileName

NameSpec == NameInit /\ [][NameNext]_vars

\* the infix of the output file name
OutInfix == <<".", "o", "u", "t", ".">>

\* name t is stem, '-', a uuid, '.', ext
IsStagingName(t, stem, ext) ==
    /\ Len(t) = Len(stem) + UuidLen + Len(ext) + 2
    /\ SubSeq(t, 1, Len(stem)) = stem
    /\ t[Len(stem) + 1] = "-"
    /\ SubSeq(t, Len(stem) + 2, Len(stem) + UuidLen + 1) \in Uuids
    /\ t[Len(stem) + UuidLen + 2] = "."
    /\ SubSeq(t, Len(stem) + UuidLen + 3, Len(t)) = ext

\* name o is name t with ".out." in the place of the dot before ext
IsOutputName(o, t, ext) ==
    /\ o = SubSeq(t, 1, Len(t) - Len(ext) - 1) \o OutInfix \o ext
    /\ o # t

====
